---- MODULE Spec2Model ----
(***************************************************************************)
(* Model of cmd/convox/rack.go: the `rack update`, `rack params set` and   *)
(* `rack start` commands, the polling loop waitForRackRunning and the      *)
(* signal listener handleSignalTermination.                                *)
(*                                                                         *)
(* Strings that the code compares or searches are sequences: a release id  *)
(* is a sequence of digits (compared lexicographically, as Go compares     *)
(* strings), an error message and a command-line argument are sequences of *)
(* tokens.                                                                 *)
(***************************************************************************)
EXTENDS Integers, Sequences, FiniteSets, TLC

\* ------------------------------------------------------------------ bounds
\* number of release ids the registry may know
MaxIds == 4
\* the 30 minute deadline of waitForRackRunning, counted in 2 second ticks
DeadlineTicks == 4
\* arguments given to `rack params set`
MaxArgs == 2
\* signals the operating system delivers during one `rack start`
MaxSignals == 2
\* `rack start` commands running side by side under one name
MaxStarts == 3
\* `rack update` commands run one after another against one rack
MaxInvocations == 4

\* ----------------------------------------------------------------- strings
\* Go's string comparison a < b: lexicographic, a proper prefix is smaller
RECURSIVE StrLess(_, _)
StrLess(a, b) ==
  IF b = <<>> THEN FALSE
  ELSE IF a = <<>> THEN TRUE
  ELSE IF Head(a) # Head(b) THEN Head(a) < Head(b)
  ELSE StrLess(Tail(a), Tail(b))

\* strings.Contains(s, sub)
Contains(s, sub) ==
  \E i \in 0..(Len(s) - Len(sub)) : SubSeq(s, i + 1, i + Len(sub)) = sub

\* strings.HasSuffix(s, suf)
HasSuffix(s, suf) ==
  /\ Len(s) >= Len(suf)
  /\ SubSeq(s, Len(s) - Len(suf) + 1, Len(s)) = suf

\* index of the first sep in s, 0 when there is none
RECURSIVE IndexOf(_, _)
IndexOf(s, sep) ==
  IF s = <<>> THEN 0
  ELSE IF Head(s) = sep THEN 1
  ELSE LET r == IndexOf(Tail(s), sep) IN IF r = 0 THEN 0 ELSE r + 1

\* strings.SplitN(arg, "=", 2): one part without "=", else the text before
\* the first "=" and all the text after it
SplitN2(arg) ==
  LET i == IndexOf(arg, "=") IN
  IF i = 0 THEN <<arg>>
  ELSE <<SubSeq(arg, 1, i - 1), SubSeq(arg, i + 1, Len(arg))>>

\* ------------------------------------------------------------ return values
\* the error value a command or a call returns; Pending: not returned yet
Pending == [state |-> "pending", msg |-> <<>>]
NilError == [state |-> "nil", msg |-> <<>>]
Errorf(m) == [state |-> "error", msg |-> m]

\* stdcli.Error(err): reports err and hands it back to the command runner
StdcliError(e) == e

ErrCatalogUnavailable == Errorf(<<"registry", "unavailable">>)
ErrEmptyCatalog == Errorf(<<"no", "published", "versions">>)
ErrNotFound == Errorf(<<"version", "not", "found">>)
ErrIsLatest == Errorf(<<"current", "version", "is", "latest">>)
ErrGetSystem == Errorf(<<"Get", "/system:", "connection", "refused">>)
ErrTriggerRejected == Errorf(<<"no", "update", "possible">>)
ErrTimeout == Errorf(<<"timeout">>)
ErrRolledBack == Errorf(<<"Update", "rolled", "back">>)
\* cmd.Run(): docker run ended with a status other than zero
ErrExitStatus == Errorf(<<"exit", "status">>)
\* cmd.Run(): the docker executable could not be started
ErrNotStarted == Errorf(<<"exec:", "docker:", "not", "found">>)

\* --------------------------------------------------------- version catalog
\* release ids are fixed-width digit strings, like the timestamps in use
IdOf(i) == <<i \div 2, i % 2>>
Ids == {IdOf(i) : i \in 1..MaxIds}
\* an id no registry knows
UnknownId == <<9, 9>>
\* the token "latest", its letters numbered past the digits
LatestToken == <<21, 10, 29, 14, 28, 29>>
\* the zero value version.Version{}
NoVersion == [Version |-> <<>>, Required |-> FALSE]

\* the histories the registry may hold: the first n ids in release order,
\* each release required or not
Catalogs ==
  UNION {{[i \in 1..n |-> [Version |-> IdOf(i), Required |-> f[i]]] :
            f \in [1..n -> BOOLEAN]} : n \in 0..MaxIds}

\* vs.Latest(): the newest release
Latest(c) ==
  IF Len(c) = 0 THEN [err |-> ErrEmptyCatalog, v |-> NoVersion]
  ELSE [err |-> NilError, v |-> c[Len(c)]]

\* vs.Find(id): exact match by id
Find(c, id) ==
  IF \E i \in 1..Len(c) : c[i].Version = id
  THEN [err |-> NilError,
        v |-> c[CHOOSE i \in 1..Len(c) : c[i].Version = id]]
  ELSE [err |-> ErrNotFound, v |-> NoVersion]

\* vs.Resolve(token)
Resolve(c, token) ==
  IF token = LatestToken THEN Latest(c) ELSE Find(c, token)

\* vs.Next(curr): the id of the release right after curr in the history
VsNext(c, curr) ==
  IF ~ \E i \in 1..Len(c) : c[i].Version = curr
  THEN [err |-> ErrNotFound, id |-> <<>>]
  ELSE LET i == CHOOSE j \in 1..Len(c) : c[j].Version = curr IN
       IF i = Len(c) THEN [err |-> ErrIsLatest, id |-> <<>>]
       ELSE [err |-> NilError, id |-> c[i + 1].Version]

\* ------------------------------------------------------------------- state
VARIABLES
  cmd,          \* the command that was invoked: "update", "params", "start"
  pc,           \* where the command's main goroutine stands
  vs,           \* the release history the registry holds (version.All())
  args,         \* c.Args()
  wait,         \* c.Bool("wait")
  rackVersion,  \* the version the rack runs, as GetSystem reports it
  system,       \* the last snapshot GetSystem returned
  target,       \* cmdRackUpdate's target
  next,         \* cmdRackUpdate's next
  triggered,    \* the versions passed to UpdateSystem, in call order
  upderr,       \* what UpdateSystem returned
  params,       \* cmdRackParamsSet's params map
  sent,         \* the maps passed to SetParameters, in call order
  seterr,       \* what SetParameters returned
  failed,       \* waitForRackRunning's failed flag
  polls,        \* the statuses read by the polls of waitForRackRunning
  now,          \* ticks consumed by waitForRackRunning
  svret,        \* what waitForRackRunning returned
  ret,          \* what the command returned
  log,          \* remote calls, sleeps and console notices, in order
  lpc,          \* where the goroutine handleSignalTermination stands
  instance,     \* the local container of that name: "none", "running", "exited"
  signals,      \* the signals delivered so far: where the main goroutine
                \* stood and what became of the signal
  stops,        \* `docker stop` commands issued
  starts,       \* where each of several concurrent `rack start` stands
  named,        \* the containers that hold the name: 0 the one found at
                \* the outset, p the one launched by start command p
  events,       \* the docker commands of the concurrent starts, in order
  chain         \* the rack's version before each `rack update` of a series

vars == <<cmd, pc, vs, args, wait, rackVersion, system, target, next,
          triggered, upderr, params, sent, seterr, failed, polls, now, svret, ret,
          log, lpc, instance, signals, stops, starts, named, events, chain>>

updVars == <<vs, rackVersion, target, next, triggered, upderr>>
parVars == <<params, sent, seterr>>
supVars == <<failed, polls, now, svret>>
startVars == <<lpc, instance, signals, stops>>
extVars == <<starts, named, events, chain>>

\* the zero value client.System{}
NoSystem == [Status |-> "", Version |-> <<>>]

Statuses == {"running", "updating", "rollback", "converging"}

IsErr(e) == e.state = "error"

\* ------------------------------------------------------------- rack update
\* RequiredGate that stops at the next release whether required or not
RequiredGateAnyNext(nx, tg) ==
  IF StrLess(nx.Version, tg.Version)
  THEN [target |-> nx, warn |-> TRUE]
  ELSE [target |-> tg, warn |-> FALSE]

\* cmdRackUpdate, "stop at a required release if necessary"
RequiredGate(nx, tg) ==
  IF StrLess(nx.Version, tg.Version) /\ nx.Required
  THEN [target |-> nx, warn |-> TRUE]
  ELSE [target |-> tg, warn |-> FALSE]

\* InitialTarget that falls back to Latest when the argument is not found
InitialTargetFallsBack(c, a) ==
  LET l == Latest(c) IN
  IF IsErr(l.err) THEN [err |-> StdcliError(l.err), v |-> NoVersion]
  ELSE IF Len(a) > 0
       THEN LET t == Find(c, a[1]) IN
            IF IsErr(t.err) THEN [err |-> NilError, v |-> l.v]
            ELSE [err |-> NilError, v |-> t.v]
       ELSE [err |-> NilError, v |-> l.v]

\* InitialTarget that resolves the argument with Resolve rather than Find
InitialTargetResolves(c, a) ==
  LET l == Latest(c) IN
  IF IsErr(l.err) THEN [err |-> StdcliError(l.err), v |-> NoVersion]
  ELSE IF Len(a) > 0
       THEN LET t == Resolve(c, a[1]) IN
            IF IsErr(t.err) THEN [err |-> StdcliError(t.err), v |-> NoVersion]
            ELSE [err |-> NilError, v |-> t.v]
       ELSE [err |-> NilError, v |-> l.v]

\* cmdRackUpdate from version.All's result to the first target: Latest,
\* replaced by the release the argument names
InitialTarget(c, a) ==
  LET l == Latest(c) IN
  IF IsErr(l.err) THEN [err |-> StdcliError(l.err), v |-> NoVersion]
  ELSE IF Len(a) > 0
       THEN LET t == Find(c, a[1]) IN
            IF IsErr(t.err) THEN [err |-> StdcliError(t.err), v |-> NoVersion]
            ELSE [err |-> NilError, v |-> t.v]
       ELSE [err |-> NilError, v |-> l.v]

\* PlanUpdate that takes every error of Next for "is latest"
PlanUpdateAnyError(c, cur, tg) ==
  LET n == VsNext(c, cur)
      isLatest == IsErr(n.err)
      nv == IF isLatest THEN tg.Version ELSE n.id
      f == Find(c, nv)
  IN
  IF IsErr(n.err) /\ ~isLatest
  THEN [err |-> StdcliError(n.err), next |-> NoVersion, target |-> tg,
        warn |-> FALSE]
  ELSE IF IsErr(f.err)
  THEN [err |-> StdcliError(f.err), next |-> NoVersion, target |-> tg,
        warn |-> FALSE]
  ELSE LET g == RequiredGate(f.v, tg) IN
       [err |-> NilError, next |-> f.v, target |-> g.target, warn |-> g.warn]

\* PlanUpdate that takes the rack's own version for the next one
PlanUpdateNoNext(c, cur, tg) ==
  LET f == Find(c, cur) IN
  IF IsErr(f.err)
  THEN [err |-> StdcliError(f.err), next |-> NoVersion, target |-> tg,
        warn |-> FALSE]
  ELSE LET g == RequiredGate(f.v, tg) IN
       [err |-> NilError, next |-> f.v, target |-> g.target, warn |-> g.warn]

\* cmdRackUpdate from GetSystem's result to the version to trigger: Next,
\* the "is latest" case, Find of the next id and the required gate
PlanUpdate(c, cur, tg) ==
  LET n == VsNext(c, cur)
      isLatest == IsErr(n.err) /\ HasSuffix(n.err.msg, <<"is", "latest">>)
      nv == IF isLatest THEN tg.Version ELSE n.id
      f == Find(c, nv)
  IN
  IF IsErr(n.err) /\ ~isLatest
  THEN [err |-> StdcliError(n.err), next |-> NoVersion, target |-> tg,
        warn |-> FALSE]
  ELSE IF IsErr(f.err)
  THEN [err |-> StdcliError(f.err), next |-> NoVersion, target |-> tg,
        warn |-> FALSE]
  ELSE LET g == RequiredGate(f.v, tg) IN
       [err |-> NilError, next |-> f.v, target |-> g.target, warn |-> g.warn]

\* cmdRackUpdate, lines 408-431: fetch the history and fix the first target
UpdateResolve ==
  /\ cmd = "update" /\ pc = "start"
  /\ \E allOk \in BOOLEAN :
       IF ~allOk
       THEN /\ ret' = StdcliError(ErrCatalogUnavailable)
            /\ pc' = "done"
            /\ UNCHANGED target
       ELSE LET t == InitialTarget(vs, args) IN
            IF IsErr(t.err)
            THEN /\ ret' = t.err
                 /\ pc' = "done"
                 /\ UNCHANGED target
            ELSE /\ target' = t.v
                 /\ pc' = "getsystem"
                 /\ UNCHANGED ret
  /\ log' = Append(log, "All")
  /\ UNCHANGED <<cmd, vs, args, wait, rackVersion, system, next, triggered,
                 upderr>>
  /\ UNCHANGED <<parVars, supVars, startVars, extVars>>

\* cmdRackUpdate, lines 433-454: read the rack's version and plan the step
\* (the command reads nothing but Version from this snapshot)
UpdateGetSystem ==
  /\ cmd = "update" /\ pc = "getsystem"
  /\ \E getOk \in BOOLEAN :
       IF ~getOk
       THEN /\ ret' = StdcliError(ErrGetSystem)
            /\ pc' = "done"
            /\ log' = Append(log, "GetSystem")
            /\ UNCHANGED <<system, target, next>>
       ELSE LET p == PlanUpdate(vs, rackVersion, target) IN
            /\ system' = [Status |-> "running", Version |-> rackVersion]
            /\ IF IsErr(p.err)
               THEN /\ ret' = p.err
                    /\ pc' = "done"
                    /\ log' = Append(log, "GetSystem")
                    /\ UNCHANGED <<target, next>>
               ELSE /\ next' = p.next
                    /\ target' = p.target
                    /\ pc' = "trigger"
                    /\ log' = IF p.warn
                              THEN log \o <<"GetSystem", "WARNING">>
                              ELSE Append(log, "GetSystem")
                    /\ UNCHANGED ret
  /\ UNCHANGED <<cmd, vs, args, wait, rackVersion, triggered, upderr>>
  /\ UNCHANGED <<parVars, supVars, startVars, extVars>>

\* AfterUpdateSystem that drops the error of UpdateSystem
AfterUpdateSystemIgnoresError(e, w) ==
  IF w THEN [pc |-> "sleep", ret |-> Pending]
  ELSE [pc |-> "done", ret |-> NilError]

\* lines 459-465 and 478: where cmdRackUpdate goes once UpdateSystem
\* returned e, and what it returns (Pending: it goes on)
AfterUpdateSystem(e, w) ==
  IF IsErr(e) THEN [pc |-> "done", ret |-> StdcliError(e)]
  ELSE IF w THEN [pc |-> "sleep", ret |-> Pending]
  ELSE [pc |-> "done", ret |-> NilError]

\* cmdRackUpdate, lines 456-465 and 478: UpdateSystem(target.Version)
UpdateTrigger ==
  /\ cmd = "update" /\ pc = "trigger"
  /\ triggered' = Append(triggered, target.Version)
  /\ log' = Append(log, "UpdateSystem")
  /\ \E reply \in {NilError, ErrTriggerRejected} :
       LET a == AfterUpdateSystem(reply, wait) IN
       /\ upderr' = reply
       /\ pc' = a.pc
       /\ ret' = a.ret
  /\ UNCHANGED <<cmd, vs, args, wait, rackVersion, system, target, next>>
  /\ UNCHANGED <<parVars, supVars, startVars, extVars>>

\* ------------------------------------------------------ waitForRackRunning
\* SwitchStatus without the memory of a rollback: `running` always succeeds
SwitchStatusForgetful(status, f) ==
  IF status = "running"
  THEN [ret |-> NilError, failed |-> f, out |-> <<>>]
  ELSE IF status = "rollback" /\ ~f
  THEN [ret |-> Pending, failed |-> TRUE, out |-> <<"FAILED">>]
  ELSE [ret |-> Pending, failed |-> f, out |-> <<>>]

\* SwitchStatus that gives up at the first `rollback` reading
SwitchStatusRollbackEnds(status, f) ==
  IF status = "running"
  THEN IF f
       THEN [ret |-> ErrRolledBack, failed |-> f, out |-> <<"DONE">>]
       ELSE [ret |-> NilError, failed |-> f, out |-> <<>>]
  ELSE IF status = "rollback"
  THEN [ret |-> ErrRolledBack, failed |-> TRUE, out |-> <<"FAILED">>]
  ELSE [ret |-> Pending, failed |-> f, out |-> <<>>]

\* SwitchStatus that clears the failed flag on an `updating` reading
SwitchStatusResets(status, f) ==
  IF status = "running"
  THEN IF f
       THEN [ret |-> ErrRolledBack, failed |-> f, out |-> <<"DONE">>]
       ELSE [ret |-> NilError, failed |-> f, out |-> <<>>]
  ELSE IF status = "rollback" /\ ~f
  THEN [ret |-> Pending, failed |-> TRUE, out |-> <<"FAILED">>]
  ELSE IF status = "updating"
  THEN [ret |-> Pending, failed |-> FALSE, out |-> <<>>]
  ELSE [ret |-> Pending, failed |-> f, out |-> <<>>]

\* one pass of `switch s.Status`: what the call returns (Pending: it loops
\* on), the failed flag afterwards and what is printed
SwitchStatus(status, f) ==
  IF status = "running"
  THEN IF f
       THEN [ret |-> ErrRolledBack, failed |-> f, out |-> <<"DONE">>]
       ELSE [ret |-> NilError, failed |-> f, out |-> <<>>]
  ELSE IF status = "rollback" /\ ~f
  THEN [ret |-> Pending, failed |-> TRUE, out |-> <<"FAILED">>]
  ELSE [ret |-> Pending, failed |-> f, out |-> <<>>]

\* what the command returns once waitForRackRunning returned e
AfterWait(e) == IF IsErr(e) THEN StdcliError(e) ELSE NilError

\* lines 466-469 and 362-365: time.Sleep(5 * time.Second), then the call of
\* waitForRackRunning arms its timers and clears failed
GraceDelay ==
  /\ cmd \in {"update", "params"} /\ pc = "sleep"
  /\ pc' = "supervise"
  /\ log' = Append(log, "Sleep")
  /\ failed' = FALSE
  /\ now' = 0
  /\ UNCHANGED <<cmd, args, wait, system, ret, polls, svret>>
  /\ UNCHANGED <<updVars, parVars, startVars, extVars>>

\* TickCase that polls again after a failed GetSystem
TickCaseRetries(getOk, status, f) ==
  IF ~getOk THEN [ret |-> Pending, failed |-> f, out |-> <<>>]
  ELSE SwitchStatus(status, f)

\* the body of `case <-tick`, lines 717-734: a failed GetSystem is
\* returned, a status goes through the switch
TickCase(getOk, status, f) ==
  IF ~getOk THEN [ret |-> ErrGetSystem, failed |-> f, out |-> <<>>]
  ELSE SwitchStatus(status, f)

\* `case <-tick`: one GetSystem call and the switch on its status. The tick
\* that falls on the deadline races with the timeout.
Poll ==
  /\ cmd \in {"update", "params"} /\ pc = "supervise"
  /\ now < DeadlineTicks
  /\ now' = now + 1
  /\ \E getOk \in BOOLEAN, status \in Statuses :
       LET r == TickCase(getOk, status, failed) IN
       /\ IF getOk
          THEN /\ system' = [Status |-> status, Version |-> rackVersion]
               /\ polls' = Append(polls, status)
          ELSE UNCHANGED <<system, polls>>
       /\ failed' = r.failed
       /\ log' = Append(log, "Poll") \o r.out
       /\ svret' = r.ret
       /\ IF r.ret = Pending
          THEN UNCHANGED <<pc, ret>>
          ELSE /\ pc' = "done"
               /\ ret' = AfterWait(r.ret)
  /\ UNCHANGED <<cmd, args, wait>>
  /\ UNCHANGED <<updVars, parVars, startVars, extVars>>

\* `case <-timeout`: ready once 30 minutes have passed
Timeout ==
  /\ cmd \in {"update", "params"} /\ pc = "supervise"
  /\ now >= DeadlineTicks - 1
  /\ svret' = ErrTimeout
  /\ ret' = AfterWait(ErrTimeout)
  /\ pc' = "done"
  /\ UNCHANGED <<cmd, args, wait, system, failed, polls, now, log>>
  /\ UNCHANGED <<updVars, parVars, startVars, extVars>>

\* --------------------------------------------------------- rack params set
NoopText == <<"No", "updates", "are", "to", "be", "performed">>

\* what SetParameters may answer
SetParametersReplies ==
  { NilError,
    Errorf(NoopText),
    Errorf(<<"ValidationError:">> \o NoopText \o <<".">>),
    Errorf(<<"No", "updates">>),
    Errorf(<<"stack", "is", "updating">>) }

\* lines 352-357: the error cmdRackParamsSet returns for a failed call
SetParametersError(e) ==
  IF Contains(e.msg, NoopText)
  THEN StdcliError(Errorf(NoopText))
  ELSE StdcliError(e)

EmptyMap == [x \in {} |-> <<>>]
MapPut(m, k, v) == [x \in (DOMAIN m) \cup {k} |-> IF x = k THEN v ELSE m[x]]

\* ParseArgs that passes over an argument without "="
RECURSIVE ParseArgsSkipsBad(_, _)
ParseArgsSkipsBad(a, m) ==
  IF a = <<>> THEN [err |-> NilError, params |-> m]
  ELSE LET parts == SplitN2(Head(a)) IN
       IF Len(parts) # 2
       THEN ParseArgsSkipsBad(Tail(a), m)
       ELSE ParseArgsSkipsBad(Tail(a), MapPut(m, parts[1], parts[2]))

\* lines 337-347: the loop over c.Args()
RECURSIVE ParseArgs(_, _)
ParseArgs(a, m) ==
  IF a = <<>> THEN [err |-> NilError, params |-> m]
  ELSE LET parts == SplitN2(Head(a)) IN
       IF Len(parts) # 2
       THEN [err |-> Errorf(<<"invalid", "argument:">> \o Head(a)),
             params |-> m]
       ELSE ParseArgs(Tail(a), MapPut(m, parts[1], parts[2]))

\* the arguments a user may type
ArgPool ==
  { <<"A", "=", "1">>, <<"A", "=", "2">>, <<"B", "=", "1">>,
    <<"B", "=", "x", "=", "y">>, <<"A">> }

\* cmdRackParamsSet, lines 328-349: GetSystem, then the arguments
ParamsGetSystem ==
  /\ cmd = "params" /\ pc = "start"
  /\ log' = Append(log, "GetSystem")
  /\ \E getOk \in BOOLEAN :
       IF ~getOk
       THEN /\ ret' = StdcliError(ErrGetSystem)
            /\ pc' = "done"
            /\ UNCHANGED <<system, params>>
       ELSE LET p == ParseArgs(args, EmptyMap) IN
            /\ system' = [Status |-> "running", Version |-> rackVersion]
            /\ params' = p.params
            /\ IF IsErr(p.err)
               THEN /\ ret' = StdcliError(p.err)
                    /\ pc' = "done"
               ELSE /\ pc' = "set"
                    /\ UNCHANGED ret
  /\ UNCHANGED <<cmd, args, wait, sent, seterr>>
  /\ UNCHANGED <<updVars, supVars, startVars, extVars>>

\* AfterSetParameters that waits for the rollout whatever the --wait flag
AfterSetParametersAlwaysWaits(e, w) ==
  IF IsErr(e) THEN [pc |-> "done", ret |-> SetParametersError(e)]
  ELSE [pc |-> "sleep", ret |-> Pending]

\* lines 352-361 and 374: where cmdRackParamsSet goes once SetParameters
\* returned e, and what it returns (Pending: it goes on)
AfterSetParameters(e, w) ==
  IF IsErr(e) THEN [pc |-> "done", ret |-> SetParametersError(e)]
  ELSE IF w THEN [pc |-> "sleep", ret |-> Pending]
  ELSE [pc |-> "done", ret |-> NilError]

\* cmdRackParamsSet, lines 351-361 and 374: SetParameters(system.Name, params)
ParamsSet ==
  /\ cmd = "params" /\ pc = "set"
  /\ sent' = Append(sent, params)
  /\ log' = Append(log, "SetParameters")
  /\ \E reply \in SetParametersReplies :
       LET a == AfterSetParameters(reply, wait) IN
       /\ seterr' = reply
       /\ pc' = a.pc
       /\ ret' = a.ret
  /\ UNCHANGED <<cmd, args, wait, system, params>>
  /\ UNCHANGED <<updVars, supVars, startVars, extVars>>

\* -------------------------------------------------------------- rack start
\* rackCommand, lines 743-771: `docker rm -f name`, then the docker run
\* command line is built
RackCommand ==
  /\ cmd = "start" /\ pc = "start"
  /\ instance' = "none"
  /\ log' = Append(log, "docker rm -f")
  /\ pc' = "spawn"
  /\ UNCHANGED <<cmd, args, wait, system, ret, lpc, signals, stops>>
  /\ UNCHANGED <<updVars, parVars, supVars, extVars>>

\* line 569: go handleSignalTermination(name)
SpawnListener ==
  /\ cmd = "start" /\ pc = "spawn"
  /\ lpc' = "spawned"
  /\ pc' = "run"
  /\ UNCHANGED <<cmd, args, wait, system, ret, log, instance, signals, stops>>
  /\ UNCHANGED <<updVars, parVars, supVars, extVars>>

\* what cmd.Run() returns when docker run creates no container: docker is
\* missing, or docker run itself ends with an error status
RunStartErrors == {ErrNotStarted, ErrExitStatus}

\* what cmd.Run() returns once the container is gone: nil when docker run
\* ended with status zero, else the exit error
RunResults == {NilError, ErrExitStatus}

\* line 571: cmd.Run() starts `docker run`, which creates the container,
\* and blocks until it ends; when no container can be started it returns
\* the error at once, cmdRackStart returns it and the process ends
RunStart ==
  /\ cmd = "start" /\ pc = "run"
  /\ log' = Append(log, "docker run")
  /\ \/ /\ instance' = "running"
        /\ pc' = "running"
        /\ UNCHANGED <<ret, lpc>>
     \/ \E e \in RunStartErrors :
          /\ pc' = "done"
          /\ ret' = e
          /\ lpc' = "dead"
          /\ UNCHANGED instance
  /\ UNCHANGED <<cmd, args, wait, system, signals, stops>>
  /\ UNCHANGED <<updVars, parVars, supVars, extVars>>

\* the container ends of its own accord
InstanceExit ==
  /\ cmd = "start" /\ instance = "running"
  /\ instance' = "exited"
  /\ UNCHANGED <<cmd, pc, args, wait, system, ret, log, lpc, signals, stops>>
  /\ UNCHANGED <<updVars, parVars, supVars, extVars>>

\* cmd.Run() returns once the container is gone; cmdRackStart returns what
\* it returned and the process ends, its goroutines with it
RunReturn ==
  /\ cmd = "start" /\ pc = "running" /\ instance # "running"
  /\ pc' = "done"
  /\ ret' \in RunResults
  /\ lpc' = "dead"
  /\ UNCHANGED <<cmd, args, wait, system, log, instance, signals, stops>>
  /\ UNCHANGED <<updVars, parVars, supVars, extVars>>

\* lines 595-597: make(chan os.Signal), an unbuffered channel, and
\* signal.Notify(sigs, SIGINT, SIGTERM)
ListenerNotify ==
  /\ cmd = "start" /\ lpc = "spawned"
  /\ lpc' = "notified"
  /\ UNCHANGED <<cmd, pc, args, wait, system, ret, log, instance, signals,
                 stops>>
  /\ UNCHANGED <<updVars, parVars, supVars, extVars>>

\* line 599: `for range sigs` blocks in the receive
ListenerReceive ==
  /\ cmd = "start" /\ lpc = "notified"
  /\ lpc' = "recv"
  /\ UNCHANGED <<cmd, pc, args, wait, system, ret, log, instance, signals,
                 stops>>
  /\ UNCHANGED <<updVars, parVars, supVars, extVars>>

\* what becomes of a signal, by where the listener stands: before Notify
\* the runtime's default ends the process; after it the runtime sends on
\* the channel without blocking, so the signal is dropped unless the
\* listener is blocked in the receive
SignalFate(l) ==
  IF l \in {"none", "spawned"} THEN "killed"
  ELSE IF l = "recv" THEN "received"
  ELSE "dropped"

\* the operating system delivers SIGINT or SIGTERM to the process; a
\* received signal runs lines 600-601: the notice and `docker stop name`
Signal ==
  /\ cmd = "start" /\ pc # "done"
  /\ Len(signals) < MaxSignals
  /\ LET fate == SignalFate(lpc) IN
     /\ signals' = Append(signals, [at |-> pc, fate |-> fate])
     /\ IF fate = "killed"
        THEN /\ pc' = "done"
             /\ ret' = Errorf(<<"signal:", "interrupt">>)
             /\ lpc' = "dead"
             /\ UNCHANGED <<stops, log>>
        ELSE IF fate = "received"
        THEN /\ lpc' = "stopping"
             /\ stops' = stops + 1
             /\ log' = log \o <<"stopping", "docker stop">>
             /\ UNCHANGED <<pc, ret>>
        ELSE UNCHANGED <<pc, ret, lpc, stops, log>>
  /\ UNCHANGED <<cmd, args, wait, system, instance>>
  /\ UNCHANGED <<updVars, parVars, supVars, extVars>>

\* `docker stop name` finishes: a running container of that name is
\* stopped, otherwise the command fails and its error is dropped; the
\* loop goes back to the receive
StopDone ==
  /\ cmd = "start" /\ lpc = "stopping"
  /\ instance' = IF instance = "running" THEN "exited" ELSE instance
  /\ lpc' = "notified"
  /\ UNCHANGED <<cmd, pc, args, wait, system, ret, log, signals, stops>>
  /\ UNCHANGED <<updVars, parVars, supVars, extVars>>

\* ----------------------------------------------------------- specification
UpdateArgs == {<<>>} \cup {<<id>> : id \in Ids \cup {UnknownId, LatestToken}}
ParamsArgs == UNION {[1..n -> ArgPool] : n \in 1..MaxArgs}

Init ==
  /\ cmd \in {"update", "params", "start"}
  /\ pc = "start"
  /\ wait \in (IF cmd = "start" THEN {FALSE} ELSE BOOLEAN)
  /\ vs \in (IF cmd = "update" THEN Catalogs ELSE {<<>>})
  /\ rackVersion \in (IF cmd = "update" THEN Ids \cup {UnknownId}
                                         ELSE {IdOf(1)})
  /\ args \in (IF cmd = "update" THEN UpdateArgs
               ELSE IF cmd = "params" THEN ParamsArgs ELSE {<<>>})
  /\ instance \in (IF cmd = "start" THEN {"none", "running"} ELSE {"none"})
  /\ system = NoSystem
  /\ target = NoVersion
  /\ next = NoVersion
  /\ triggered = <<>>
  /\ upderr = Pending
  /\ params = EmptyMap
  /\ sent = <<>>
  /\ seterr = Pending
  /\ failed = FALSE
  /\ polls = <<>>
  /\ now = 0
  /\ svret = Pending
  /\ ret = Pending
  /\ log = <<>>
  /\ lpc = "none"
  /\ signals = <<>>
  /\ stops = 0
  /\ starts = [p \in 1..MaxStarts |-> "done"]
  /\ named = {}
  /\ events = <<>>
  /\ chain = <<>>

Next ==
  \/ UpdateResolve
  \/ UpdateGetSystem
  \/ UpdateTrigger
  \/ ParamsGetSystem
  \/ ParamsSet
  \/ GraceDelay
  \/ Poll
  \/ Timeout
  \/ RackCommand
  \/ SpawnListener
  \/ RunStart
  \/ InstanceExit
  \/ RunReturn
  \/ ListenerNotify
  \/ ListenerReceive
  \/ Signal
  \/ StopDone

Spec == Init /\ [][Next]_vars

\* the select loop of waitForRackRunning takes a case whenever one is ready:
\* a tick arrives every 2 seconds and the timeout after 30 minutes
LiveSpec == Init /\ [][Next]_vars /\ WF_vars(Poll) /\ WF_vars(Timeout)

\* ------------------------------------------- several rack start commands
\* `docker rm -f name` that removes nothing
RemoveNamedSkipped(n) == n

\* rackCommand, line 751: `docker rm -f name` removes whatever container
\* holds the name
RemoveNamed(n) == {}

\* rackCommand called by start command p
StartRemove(p) ==
  /\ cmd = "starts" /\ starts[p] = "start"
  /\ named' = RemoveNamed(named)
  /\ events' = Append(events, <<p, "rm">>)
  /\ starts' = [starts EXCEPT ![p] = "run"]
  /\ UNCHANGED <<cmd, pc, args, wait, system, ret, log, chain>>
  /\ UNCHANGED <<updVars, parVars, supVars, startVars>>

\* cmd.Run() of start command p, line 571: `docker run --name name`
\* creates the container, or fails because docker finds the name in use
StartLaunch(p) ==
  /\ cmd = "starts" /\ starts[p] = "run"
  /\ IF named = {}
     THEN /\ named' = {p}
          /\ events' = Append(events, <<p, "run">>)
          /\ starts' = [starts EXCEPT ![p] = "running"]
     ELSE /\ events' = Append(events, <<p, "refused">>)
          /\ starts' = [starts EXCEPT ![p] = "done"]
          /\ UNCHANGED named
  /\ UNCHANGED <<cmd, pc, args, wait, system, ret, log, chain>>
  /\ UNCHANGED <<updVars, parVars, supVars, startVars>>

\* cmd.Run() of start command p returns: its container ended and --rm
\* removed it, or another command's `docker rm -f` took it away
StartEnd(p) ==
  /\ cmd = "starts" /\ starts[p] = "running"
  /\ named' = named \ {p}
  /\ starts' = [starts EXCEPT ![p] = "done"]
  /\ UNCHANGED <<cmd, pc, args, wait, system, ret, log, events, chain>>
  /\ UNCHANGED <<updVars, parVars, supVars, startVars>>

\* no single command under way: the state the concurrent starts leave alone
NoCommand ==
  /\ pc = "done"
  /\ wait = FALSE
  /\ vs = <<>>
  /\ rackVersion = IdOf(1)
  /\ args = <<>>
  /\ instance = "none"
  /\ system = NoSystem
  /\ target = NoVersion
  /\ next = NoVersion
  /\ triggered = <<>>
  /\ upderr = Pending
  /\ params = EmptyMap
  /\ sent = <<>>
  /\ seterr = Pending
  /\ failed = FALSE
  /\ polls = <<>>
  /\ now = 0
  /\ svret = Pending
  /\ ret = Pending
  /\ log = <<>>
  /\ lpc = "none"
  /\ signals = <<>>
  /\ stops = 0

StartsInit ==
  /\ cmd = "starts"
  /\ NoCommand
  /\ starts = [p \in 1..MaxStarts |-> "start"]
  /\ named \in {{}, {0}}
  /\ events = <<>>
  /\ chain = <<>>

StartsNext ==
  \E p \in 1..MaxStarts : StartRemove(p) \/ StartLaunch(p) \/ StartEnd(p)

StartsSpec == StartsInit /\ [][StartsNext]_vars

\* ------------------------------------------------- update, invoked again
\* line 452, "Please run `convox rack update` again once this update
\* completes": the command is invoked again with the same argument once the
\* last one has ended; an accepted update has by then set the rack's
\* version to the triggered one
Reinvoke ==
  /\ cmd = "update" /\ pc = "done"
  /\ chain # <<>> /\ Len(chain) <= MaxInvocations
  /\ IF triggered # <<>> /\ upderr = NilError
     THEN /\ rackVersion' = triggered[1]
          /\ chain' = Append(chain, triggered[1])
     ELSE UNCHANGED <<rackVersion, chain>>
  /\ pc' = "start"
  /\ system' = NoSystem
  /\ target' = NoVersion
  /\ next' = NoVersion
  /\ triggered' = <<>>
  /\ upderr' = Pending
  /\ ret' = Pending
  /\ log' = <<>>
  /\ UNCHANGED <<cmd, vs, args, wait, starts, named, events>>
  /\ UNCHANGED <<parVars, supVars, startVars>>

ChainInit ==
  /\ cmd = "update"
  /\ pc = "start"
  /\ wait = FALSE
  /\ vs \in Catalogs
  /\ rackVersion \in Ids \cup {UnknownId}
  /\ args \in UpdateArgs
  /\ instance = "none"
  /\ system = NoSystem
  /\ target = NoVersion
  /\ next = NoVersion
  /\ triggered = <<>>
  /\ upderr = Pending
  /\ params = EmptyMap
  /\ sent = <<>>
  /\ seterr = Pending
  /\ failed = FALSE
  /\ polls = <<>>
  /\ now = 0
  /\ svret = Pending
  /\ ret = Pending
  /\ log = <<>>
  /\ lpc = "none"
  /\ signals = <<>>
  /\ stops = 0
  /\ starts = [p \in 1..MaxStarts |-> "done"]
  /\ named = {}
  /\ events = <<>>
  /\ chain = <<rackVersion>>

ChainNext ==
  \/ UpdateResolve
  \/ UpdateGetSystem
  \/ UpdateTrigger
  \/ Reinvoke

ChainSpec == ChainInit /\ [][ChainNext]_vars

\* ------------------------------------------------------------------ claims
Last(q) == q[Len(q)]
Occurs(q, x) == \E i \in 1..Len(q) : q[i] = x
CountOf(q, x) == Cardinality({i \in 1..Len(q) : q[i] = x})
\* a poll before the last one read status x
ReadEarlier(x) == \E i \in 1..(Len(polls) - 1) : polls[i] = x
EndsOnRunning == polls # <<>> /\ Last(polls) = "running"
\* position of id in the history h, 0 when absent
PosOf(h, id) ==
  IF \E i \in 1..Len(h) : h[i].Version = id
  THEN CHOOSE i \in 1..Len(h) : h[i].Version = id ELSE 0

\* C1: waitForRackRunning returns success exactly when a poll read `running`
\* and no earlier poll read `rollback`, and returns "Update rolled back"
\* exactly when a poll read `running` after an earlier poll read `rollback`.
C1_SuperviseOutcome ==
  /\ (svret = NilError) <=> (EndsOnRunning /\ ~ReadEarlier("rollback"))
  /\ (svret = ErrRolledBack) <=> (EndsOnRunning /\ ReadEarlier("rollback"))

C1_Witness ==
  /\ svret = ErrRolledBack
  /\ polls = <<"updating", "rollback", "updating", "running">>

\* C2: when a required release lies strictly between the rack's version and
\* the requested target in the history, the version passed to UpdateSystem
\* is the first such required release, never a later one.
C2_NeverSkipsRequired ==
  triggered # <<>> =>
    LET tg == IF args = <<>> THEN Last(vs).Version ELSE args[1]
        between == {i \in 1..Len(vs) :
                      /\ PosOf(vs, rackVersion) < i
                      /\ i < PosOf(vs, tg)
                      /\ vs[i].Required}
    IN between # {} =>
         triggered[1] = vs[CHOOSE i \in between :
                              \A j \in between : i <= j].Version

\* C3: waitForRackRunning called after UpdateSystem returns success only
\* after an earlier poll of the call read `updating` or `rollback`.
C3_SuccessAfterCycle ==
  (cmd = "update" /\ svret = NilError) =>
    (ReadEarlier("updating") \/ ReadEarlier("rollback"))

\* C4: polls that read running, updating, rollback, updating, running in
\* that order end in "Update rolled back", not in success.
Scenario == <<"running", "updating", "rollback", "updating", "running">>
C4_ScenarioRolledBack ==
  ( /\ polls # <<>>
    /\ Len(polls) <= Len(Scenario)
    /\ polls = SubSeq(Scenario, 1, Len(polls))
    /\ svret \in {NilError, ErrRolledBack} )
  => (polls = Scenario /\ svret = ErrRolledBack)

\* C5: a call of waitForRackRunning in which no poll reads `running` and no
\* poll fails returns the timeout error, however many polls read `updating`
\* or `rollback`; and every call returns, with success, rolled back, the
\* polling error or timeout.
SuperviseOutcomes == {NilError, ErrRolledBack, ErrGetSystem, ErrTimeout}
C5_TimeoutWithoutRunning ==
  /\ [](svret \in SuperviseOutcomes \cup {Pending})
  /\ []((svret \in SuperviseOutcomes \ {ErrGetSystem} /\ ~Occurs(polls, "running"))
         => svret = ErrTimeout)
  /\ ((pc = "supervise") ~> (svret \in SuperviseOutcomes))

C5_Witness ==
  /\ svret = ErrTimeout
  /\ Len(polls) = DeadlineTicks
  /\ \A i \in 1..Len(polls) : polls[i] = "rollback"

\* C6: the version passed to UpdateSystem is next, with the warning, when
\* next.id < target.id and next is required, and otherwise the resolved
\* target without a warning; for the history [A, B required, C], a rack on
\* A and the request C it is B.
C6_RequiredGate ==
  triggered # <<>> =>
    LET tg == IF args = <<>> THEN Last(vs).Version ELSE args[1] IN
    /\ IF StrLess(next.Version, tg) /\ next.Required
       THEN triggered[1] = next.Version /\ CountOf(log, "WARNING") = 1
       ELSE triggered[1] = tg /\ ~Occurs(log, "WARNING")
    /\ ( /\ Len(vs) = 3
         /\ vs[2].Required
         /\ rackVersion = vs[1].Version
         /\ args = <<vs[3].Version>> ) => triggered[1] = vs[2].Version

C6_Witness ==
  /\ Len(vs) = 3
  /\ vs[2].Required
  /\ rackVersion = vs[1].Version
  /\ args = <<vs[3].Version>>
  /\ triggered = <<vs[2].Version>>
  /\ Occurs(log, "WARNING")

\* C7: when UpdateSystem fails the command returns that error at once:
\* UpdateSystem was called once, and no sleep and no poll follows, with or
\* without --wait.
C7_TriggerErrorEnds ==
  IsErr(upderr) =>
    /\ pc = "done"
    /\ ret = upderr
    /\ Len(triggered) = 1
    /\ Last(log) = "UpdateSystem"
    /\ ~Occurs(log, "Sleep") /\ ~Occurs(log, "Poll")
    /\ polls = <<>> /\ svret = Pending

C7_Witness == IsErr(upderr) /\ wait /\ pc = "done"

\* C8: a poll whose GetSystem fails ends waitForRackRunning with that
\* error: it is the last poll, and the outcome is not success, rolled back
\* or timeout, whatever was read before.
C8_PollErrorEnds ==
  (CountOf(log, "Poll") > Len(polls)) =>
    /\ CountOf(log, "Poll") = Len(polls) + 1
    /\ Last(log) = "Poll"
    /\ svret = ErrGetSystem
    /\ ret = ErrGetSystem
    /\ pc = "done"

C8_Witness ==
  /\ svret = ErrGetSystem
  /\ failed
  /\ CountOf(log, "Poll") = Len(polls) + 1

\* a SetParameters failure whose message contains the no-op text
IsNoop(e) == IsErr(e) /\ Contains(e.msg, NoopText)

\* C9: a SetParameters failure that contains "No updates are to be
\* performed" is a non-fatal end of params-set: the command ends there
\* without supervision and does not return an error carrying the remote's
\* wording; any other SetParameters failure is returned unchanged.
C9_NoopNonFatal ==
  /\ IsNoop(seterr) =>
       /\ pc = "done"
       /\ ~IsErr(ret)
       /\ ~Occurs(log, "Sleep") /\ ~Occurs(log, "Poll")
  /\ (IsErr(seterr) /\ ~IsNoop(seterr)) =>
       /\ pc = "done"
       /\ ret = seterr
       /\ ~Occurs(log, "Sleep") /\ ~Occurs(log, "Poll")

\* C10: a signal delivered from the launch of the foreground run on is
\* never lost with the instance left running: once the listener is back
\* waiting for signals, either every such signal was received or the
\* instance is no longer running.
C10_NoSignalLost ==
  ~ ( /\ instance = "running"
      /\ lpc \in {"recv", "dead"}
      /\ \E i \in 1..Len(signals) :
           /\ signals[i].at \in {"run", "running"}
           /\ signals[i].fate # "received" )

\* C11: every start command removes whatever holds the name before it
\* launches: a launch is preceded by the same command's removal, nothing
\* that held the name before a removal is still there, and at no time do
\* two containers hold the name.
C11_RemoveBeforeLaunch ==
  /\ Cardinality(named) <= 1
  /\ \A i \in 1..Len(events) :
       events[i][2] \in {"run", "refused"} =>
         \E j \in 1..(i - 1) : events[j] = <<events[i][1], "rm">>
  /\ (\E i \in 1..Len(events) : events[i][2] = "rm") => 0 \notin named
  /\ \A p \in named \ {0} :
       \E i \in 1..Len(events) :
         /\ events[i] = <<p, "run">>
         /\ \A j \in (i + 1)..Len(events) : events[j][2] # "rm"

C11_Witness ==
  /\ events = <<<<1, "rm">>, <<1, "run">>, <<2, "rm">>, <<2, "run">>>>
  /\ named = {2}

\* the release the request resolves to: the newest without an argument
Requested == IF args = <<>> THEN Last(vs).Version ELSE args[1]

\* C12: in `rack update` a failed catalog or state step ends the command
\* with that error and UpdateSystem is not called; UpdateSystem is called at
\* most once, after version.All, Latest, Find, GetSystem and Next all
\* succeeded, and no step runs twice.
C12_FailureBeforeTrigger ==
  cmd = "update" =>
    /\ Len(triggered) <= 1
    /\ CountOf(log, "All") <= 1
    /\ CountOf(log, "GetSystem") <= 1
    /\ CountOf(log, "UpdateSystem") = Len(triggered)
    /\ triggered # <<>> =>
         /\ vs # <<>>
         /\ PosOf(vs, Requested) > 0
         /\ PosOf(vs, rackVersion) > 0
         /\ PosOf(vs, next.Version) > 0
         /\ SubSeq(log, 1, 2) = <<"All", "GetSystem">>
    /\ (pc = "done" /\ triggered = <<>>) =>
         /\ ret \in {ErrCatalogUnavailable, ErrEmptyCatalog, ErrNotFound,
                     ErrGetSystem}
         /\ ret \in {ErrCatalogUnavailable, ErrEmptyCatalog} => log = <<"All">>
         /\ ret = ErrEmptyCatalog => vs = <<>>
         /\ ret = ErrGetSystem => log = <<"All", "GetSystem">>
         /\ ret = ErrNotFound =>
              \/ log = <<"All">> /\ PosOf(vs, Requested) = 0
              \/ log = <<"All", "GetSystem">> /\ PosOf(vs, rackVersion) = 0

C12_Witness ==
  /\ cmd = "update" /\ pc = "done"
  /\ args # <<>> /\ PosOf(vs, args[1]) = 0 /\ vs # <<>>
  /\ ret = ErrNotFound
  /\ triggered = <<>>

\* C13: when the rack runs the newest release, Next reports "is latest" and
\* the version passed to UpdateSystem is the resolved target, without a
\* warning, also when that target is the rack's version or older; when Next
\* fails otherwise the command ends with that error and triggers nothing.
C13_IsLatestTakesTarget ==
  cmd = "update" =>
    /\ (triggered # <<>> /\ rackVersion = Last(vs).Version) =>
         /\ next.Version = Requested
         /\ triggered[1] = Requested
         /\ ~Occurs(log, "WARNING")
    /\ PosOf(vs, rackVersion) = 0 =>
         /\ triggered = <<>>
         /\ pc \notin {"trigger", "sleep", "supervise"}
         /\ (pc = "done" /\ log = <<"All", "GetSystem">> /\ ret # ErrGetSystem)
              => ret = ErrNotFound

C13_Witness ==
  /\ Len(vs) >= 2
  /\ rackVersion = Last(vs).Version
  /\ args = <<vs[1].Version>>
  /\ triggered = <<vs[1].Version>>

\* C14 as stated: `rack update latest` resolves its target like `rack
\* update` without an argument: to the newest release.
C14_LatestTokenResolves ==
  ( /\ cmd = "update"
    /\ args = <<LatestToken>>
    /\ vs # <<>>
    /\ Occurs(log, "All")
    /\ ret # ErrCatalogUnavailable )
  => (ret # ErrNotFound /\ (pc = "getsystem" => target = Last(vs)))

\* C14 amended: without an argument the first target is the newest release;
\* an argument, the token "latest" included, is looked up by exact id and
\* the command fails with "not found" when no release has that id.
C14_ArgumentFoundById ==
  cmd = "update" =>
    /\ pc = "getsystem" =>
         /\ vs # <<>>
         /\ target.Version = Requested
         /\ PosOf(vs, Requested) > 0
         /\ target = vs[PosOf(vs, Requested)]
    /\ ( /\ args # <<>>
         /\ PosOf(vs, args[1]) = 0
         /\ vs # <<>>
         /\ Occurs(log, "All")
         /\ ret # ErrCatalogUnavailable )
       => (pc = "done" /\ ret = ErrNotFound /\ log = <<"All">>)

C14_Witness ==
  /\ cmd = "update"
  /\ args = <<LatestToken>>
  /\ Len(vs) >= 2
  /\ ret = ErrNotFound
  /\ log = <<"All">>

\* C15: during one start the stop command against the named instance is
\* issued at most once, however many signals arrive.
C15_AtMostOneStop ==
  cmd = "start" =>
    /\ stops <= 1
    /\ CountOf(log, "docker stop") <= 1

\* the remote call of the command, and its reply
RemoteCall == IF cmd = "update" THEN "UpdateSystem" ELSE "SetParameters"
RemoteReply == IF cmd = "update" THEN upderr ELSE seterr

\* C16: in update and params-set supervision comes strictly after a
\* successful remote call: with --wait the remote call succeeds, then comes
\* the one grace delay, then the first poll; without --wait or after a
\* failed remote call there is neither delay nor poll; and with --wait the
\* command returns success only after supervision returned success.
C16_SupervisionOrdered ==
  cmd \in {"update", "params"} =>
    /\ CountOf(log, "Sleep") <= 1
    /\ \A i \in 1..Len(log) :
         /\ log[i] = "Sleep" =>
              /\ i > 1 /\ log[i - 1] = RemoteCall
              /\ RemoteReply = NilError
              /\ wait
         /\ log[i] = "Poll" =>
              \E j \in 1..(i - 1) :
                /\ log[j] = "Sleep"
                /\ \A k \in (j + 1)..(i - 1) :
                     log[k] \in {"Poll", "FAILED", "DONE"}
    /\ (~wait \/ RemoteReply # NilError) =>
         /\ ~Occurs(log, "Sleep") /\ ~Occurs(log, "Poll")
         /\ polls = <<>> /\ svret = Pending
         /\ pc \notin {"sleep", "supervise"}
    /\ (pc = "done" /\ ret = NilError) =>
         /\ RemoteReply = NilError
         /\ wait => (svret = NilError /\ Last(log) = "Poll")

C16_Witness ==
  /\ cmd = "params" /\ wait
  /\ pc = "done" /\ ret = NilError
  /\ log = <<"GetSystem", "SetParameters", "Sleep", "Poll", "Poll">>

\* C17: when update is invoked again and again toward one target newer
\* than the rack's catalogued version, and every accepted update sets the
\* rack's version to the triggered one, then until the target is reached
\* every trigger raises the rack's version and none passes the target, and
\* the target is reached within as many triggers as there are releases
\* after the first version up to the target.
C17_StepwiseToTarget ==
  ( /\ chain # <<>>
    /\ PosOf(vs, chain[1]) > 0
    /\ PosOf(vs, Requested) > 0
    /\ StrLess(chain[1], Requested) )
  => LET d == PosOf(vs, Requested) - PosOf(vs, chain[1])
         before(i) == \A j \in 1..i : chain[j] # Requested
     IN
     /\ rackVersion = Last(chain)
     /\ \A i \in 1..(Len(chain) - 1) :
          before(i) => /\ StrLess(chain[i], chain[i + 1])
                       /\ ~StrLess(Requested, chain[i + 1])
                       /\ PosOf(vs, chain[i + 1]) > 0
     /\ Len(chain) > d => \E i \in 1..(d + 1) : chain[i] = Requested

C17_Witness ==
  /\ Len(chain) = 3
  /\ StrLess(chain[1], chain[2]) /\ StrLess(chain[2], chain[3])
  /\ chain[3] = Requested
  /\ args # <<>>
  /\ Requested # Last(vs).Version

\* C18: within one call of waitForRackRunning the failed flag is false
\* until the first poll reads `rollback`, true from then on whatever later
\* polls read, and the FAILED notice is printed once, right after the poll
\* of that first reading; DONE is printed once, and only when the call ends
\* as rolled back.
C18_FailedMonotonic ==
  cmd \in {"update", "params"} =>
    /\ failed = Occurs(polls, "rollback")
    /\ CountOf(log, "FAILED") = (IF Occurs(polls, "rollback") THEN 1 ELSE 0)
    /\ \A i \in 1..Len(log) :
         log[i] = "FAILED" =>
           /\ i > 1 /\ log[i - 1] = "Poll"
           /\ \E k \in 1..Len(polls) :
                /\ polls[k] = "rollback"
                /\ \A j \in 1..(k - 1) : polls[j] # "rollback"
                /\ CountOf(SubSeq(log, 1, i), "Poll") >= k
    /\ CountOf(log, "DONE") = (IF svret = ErrRolledBack THEN 1 ELSE 0)
    /\ svret = ErrRolledBack => (failed /\ Last(log) = "DONE")

C18_Witness ==
  /\ polls = <<"rollback", "updating", "rollback">>
  /\ failed
  /\ CountOf(log, "FAILED") = 1

\* an argument of the form NAME=VALUE, its name and its value
WellFormed(a) == \E k \in 1..Len(a) : a[k] = "="
FirstEq(a) ==
  CHOOSE k \in 1..Len(a) : a[k] = "=" /\ \A j \in 1..(k - 1) : a[j] # "="
NameOf(a) == SubSeq(a, 1, FirstEq(a) - 1)
ValueOf(a) == SubSeq(a, FirstEq(a) + 1, Len(a))

\* C19: in params-set an argument without "=" ends the command with the
\* invalid-argument error for the first such argument and SetParameters is
\* never called, whatever the other arguments; when every argument is
\* NAME=VALUE, SetParameters is called once GetSystem succeeded, once only,
\* with one entry per distinct name and the last value given for it.
C19_AllOrNothingParams ==
  cmd = "params" =>
    /\ Len(sent) <= 1
    /\ Len(sent) = CountOf(log, "SetParameters")
    /\ (\E i \in 1..Len(args) : ~WellFormed(args[i])) =>
         /\ sent = <<>> /\ seterr = Pending
         /\ pc \in {"start", "done"}
         /\ (pc = "done" /\ ret # ErrGetSystem) =>
              \E i \in 1..Len(args) :
                /\ ~WellFormed(args[i])
                /\ \A j \in 1..(i - 1) : WellFormed(args[j])
                /\ ret = Errorf(<<"invalid", "argument:">> \o args[i])
    /\ (\A i \in 1..Len(args) : WellFormed(args[i])) =>
         /\ (pc = "done" /\ sent = <<>>) =>
              (ret = ErrGetSystem /\ log = <<"GetSystem">>)
         /\ sent # <<>> =>
              /\ DOMAIN sent[1] = {NameOf(args[i]) : i \in 1..Len(args)}
              /\ \A i \in 1..Len(args) :
                   (\A j \in (i + 1)..Len(args) :
                      NameOf(args[j]) # NameOf(args[i]))
                   => sent[1][NameOf(args[i])] = ValueOf(args[i])

C19_Witness ==
  /\ cmd = "params" /\ pc = "done"
  /\ args = <<<<"B", "=", "1">>, <<"A">>>>
  /\ ret = Errorf(<<"invalid", "argument:", "A">>)
  /\ sent = <<>>
====
